---- MODULE Spec2Model ----
(***************************************************************************)
(* Subscription lifecycle of the playeer-api backend: the Paystack webhook *)
(* handler, the onboarding / plan-selection requests, cancellation,        *)
(* reactivation, the daily expiry sweep and the subscription status        *)
(* deriver, over the billing fields of the user documents                  *)
(* {plan, renewalDate, paystackSubscriptionId}.                            *)
(*                                                                         *)
(* Time is counted in whole days since 2024-01-01 (day 0); the time of day *)
(* that the JavaScript Date arithmetic carries along unchanged is left out.*)
(***************************************************************************)
EXTENDS Integers, Sequences, FiniteSets, TLC

VARIABLES
    users,      \* the User collection: user id -> billing fields of the document
    now,        \* the wall clock (new Date() / Date.now()), in days
    wh,         \* paystackWebhook: the delivery being handled, or the last one's answer
    cn,         \* cancelSubscription: the request being handled
    applied,    \* history: the followed deliveries that the handler has saved
    swept,      \* history: what the cron job's last run downgraded and what it spared,
                \* and whether it made up for a run that failed
    ops,        \* number of requests, deliveries and sweep runs started so far
    listing,    \* the answer to the last listing request of the staff
    plans,      \* the Plan collection: plan id -> fields of the document
    paystack,   \* the provider's side: its copy of the plans, and the
                \* subscriptions of one customer to the monthly plan
    pl,         \* updatePlan / deletePlan: the request being handled
    cs          \* createPaystackSubscription: the call being made, or the last one's result

\* the subscribers' side of the program, and the plans' side
billing == <<users, now, wh, cn, applied, swept, listing>>
catalogue == <<plans, paystack, pl, cs>>

vars == <<users, now, wh, cn, applied, swept, ops, listing, plans, paystack, pl, cs>>

----------------------------------------------------------------------------
(* Bounds of the model *)

\* requests, webhook deliveries and sweep runs in one behaviour
MaxOps == 4

----------------------------------------------------------------------------
(* Optional values: an absent field (undefined) is None, a present one Some(v) *)

None == <<>>
Some(v) == <<v>>
IsSome(o) == o # <<>>
Val(o) == o[1]

----------------------------------------------------------------------------
(* The calendar of JavaScript's Date, in days since 2024-01-01 *)

Years == 2024..2027

IsLeap(y) == (y % 4 = 0 /\ y % 100 # 0) \/ y % 400 = 0

\* m is a JavaScript month, 0 = January .. 11 = December
DaysInMonth(y, m) ==
    IF m = 1 THEN (IF IsLeap(y) THEN 29 ELSE 28)
    ELSE IF m \in {3, 5, 8, 10} THEN 30 ELSE 31

DaysInYear(y) == IF IsLeap(y) THEN 366 ELSE 365

RECURSIVE DaysBeforeYear(_)
DaysBeforeYear(y) == IF y <= 2024 THEN 0 ELSE DaysBeforeYear(y - 1) + DaysInYear(y - 1)

RECURSIVE DaysBeforeMonth(_, _)
DaysBeforeMonth(y, m) == IF m <= 0 THEN 0 ELSE DaysBeforeMonth(y, m - 1) + DaysInMonth(y, m - 1)

\* new Date(y, m, d), and what setMonth / setFullYear leave behind: a month past
\* December carries into the year, a day past the end of the month carries into
\* the following month(s)
MakeDate(y, m, d) ==
    DaysBeforeYear(y + (m \div 12)) + DaysBeforeMonth(y + (m \div 12), m % 12) + (d - 1)

getFullYear(t) == CHOOSE y \in Years : DaysBeforeYear(y) <= t /\ t < DaysBeforeYear(y + 1)
getMonth(t) ==
    LET y == getFullYear(t)
    IN  CHOOSE m \in 0..11 :
            /\ MakeDate(y, m, 1) <= t
            /\ t < MakeDate(y, m, 1) + DaysInMonth(y, m)
getDate(t) == t - MakeDate(getFullYear(t), getMonth(t), 1) + 1

\* renewalDate.setMonth(renewalDate.getMonth() + 1)
setMonthPlusOne(t) == MakeDate(getFullYear(t), getMonth(t) + 1, getDate(t))
\* renewalDate.setFullYear(renewalDate.getFullYear() + 1)
setFullYearPlusOne(t) == MakeDate(getFullYear(t) + 1, getMonth(t), getDate(t))

----------------------------------------------------------------------------
(* The data *)

\* the registered users (documents of the User collection)
Users == {"u1", "u2"}

\* the principals that send authenticated requests: the users, an admin and a
\* moderator
Callers == Users \cup {"admin", "mod"}
RoleOf(c) == IF c = "admin" THEN "admin" ELSE IF c = "mod" THEN "moderator" ELSE "user"

\* user.email; the schema stores it lowercased and unique
EmailOf(u) == IF u = "u1" THEN "u1@x.io" ELSE "u2@x.io"

\* customer.email as a webhook may carry it
Emails == {"U1@X.IO", "u2@x.io", "ghost@x.io"}

\* String.prototype.toLowerCase on the addresses above
toLowerCase(e) == IF e = "U1@X.IO" THEN "u1@x.io" ELSE e

\* provider subscription codes
SubCodes == {"SUB1", "SUB2"}

\* process.env.PAYSTACK_MONTHLY_PLAN_CODE
MonthlyPlanCode == "PLN_monthly"
\* the plan code of the yearly plan at the provider, and one of neither tier
YearlyPlanCode == "PLN_yearly"
OtherPlanCode == "PLN_other"
PlanCodes == {MonthlyPlanCode, YearlyPlanCode, OtherPlanCode}

\* the instants at which the clock is observed: 2024-01-15, 2024-01-31 and
\* 2024-02-29
TimePoints == {14, 30, 59}

\* the billing fields of a user document as User.create leaves them
FreeDoc == [plan |-> "free", renewalDate |-> None, paystackSubscriptionId |-> None]

\* $set: { plan: 'free' }, $unset: { renewalDate, paystackSubscriptionId } and
\* the same three assignments of the webhook's downgrade branches
Downgraded(doc) ==
    [doc EXCEPT !.plan = "free", !.renewalDate = None, !.paystackSubscriptionId = None]

----------------------------------------------------------------------------
(* The subscription status deriver *)

\* a deriver that takes a renewalDate ahead for an active subscription
getSubscriptionStatusByDate(user, t) ==
    IF user.plan = "free" THEN "free"
    ELSE IF ~IsSome(user.renewalDate) THEN "canceled"
    ELSE IF Val(user.renewalDate) <= t THEN "expired"
    ELSE "active"

\* a deriver that looks at the subscription code before the renewalDate
getSubscriptionStatusByCode(user, t) ==
    IF user.plan = "free" THEN "free"
    ELSE IF ~IsSome(user.renewalDate) THEN "canceled"
    ELSE IF ~IsSome(user.paystackSubscriptionId) THEN "canceled"
    ELSE IF Val(user.renewalDate) <= t THEN "expired"
    ELSE "active"

getSubscriptionStatus(user, t) ==
    IF user.plan = "free" THEN "free"
    ELSE IF ~IsSome(user.renewalDate) THEN "canceled"
    ELSE IF Val(user.renewalDate) <= t THEN "expired"
    ELSE IF ~IsSome(user.paystackSubscriptionId) THEN "canceled"
    ELSE "active"

----------------------------------------------------------------------------
(* Webhook deliveries *)

\* event.event values the handler has a case for, and one it has none for
ChargeSuccess == "charge.success"
DisableTypes == {"subscription.not_renew", "subscription.disable"}
PaymentFailed == "invoice.payment_failed"
LoggedTypes == {"invoice.create", "unknown.event"}

\* the types the switch has a case for; any other type falls to default
HandledTypes ==
    {ChargeSuccess, PaymentFailed, "invoice.create", "invoice.update"} \cup DisableTypes

\* A parsed event: event.event, whether event.data is there, and of event.data
\* the customer email, the subscription code (data.subscription_code, or
\* data.subscription.subscription_code of a failed invoice) and plan.plan_code
\* (None when data.plan is missing).
Event(type, hasData, email, sub, plan) ==
    [event |-> type, hasData |-> hasData, email |-> email, sub |-> sub, plan |-> plan]

NoEvent == Event("-", FALSE, None, None, None)

Opt(S) == {None} \cup {Some(x) : x \in S}

ChargeEvents ==
    {Event(ChargeSuccess, TRUE, Some("U1@X.IO"), Some("SUB1"), p) : p \in Opt(PlanCodes)}
    \cup {Event(ChargeSuccess, TRUE, Some("u2@x.io"), s, Some(MonthlyPlanCode)) :
            s \in Opt(SubCodes)}
    \cup {Event(ChargeSuccess, TRUE, e, Some("SUB2"), Some(YearlyPlanCode)) :
            e \in {None, Some("ghost@x.io")}}
DisableEvents ==
    {Event("subscription.disable", TRUE, None, s, None) : s \in Opt(SubCodes)}
    \cup {Event("subscription.not_renew", TRUE, None, Some("SUB1"), None)}
FailedEvents == {Event(PaymentFailed, TRUE, None, s, None) : s \in Opt({"SUB1"})}
LoggedEvents == {Event(t, TRUE, None, None, None) : t \in LoggedTypes}
NoDataEvents == {Event(ChargeSuccess, FALSE, None, None, None)}

Events == ChargeEvents \cup DisableEvents \cup FailedEvents \cup LoggedEvents \cup NoDataEvents

\* A request body: its bytes (the JSON text of an event, or bytes that
\* JSON.parse rejects) and what the handler sees in req.body. express.raw makes
\* a Buffer of the bytes of a request of type application/json.
JsonBody(e) == [json |-> TRUE, ev |-> e, seen |-> "buffer"]
Garbage == [json |-> FALSE, ev |-> NoEvent, seen |-> "buffer"]
Bodies == {JsonBody(e) : e \in Events} \cup {Garbage}

\* what the body parsers leave in req.body of a request they skip: {} with
\* body-parser 1 (Express 4), undefined with body-parser 2 (Express 5)
ParserLeaves == {"empty", "undefined"}

\* the JSON text of e sent with another content type: both parsers skip it
Skipped(e, left) == [json |-> TRUE, ev |-> e, seen |-> left]

\* the text JSON.stringify({}) returns
EmptyObject == JsonBody(NoEvent)

\* crypto.createHmac('sha512', key).update(raw).digest('hex'): a value that
\* determines, and is determined by, the key and the bytes
createHmac(key, raw) == <<key, [json |-> raw.json, ev |-> raw.ev]>>

\* Buffer.isBuffer(req.body) ? req.body.toString('utf8') : JSON.stringify(req.body)
rawBody(body) == IF body.seen = "buffer" THEN body ELSE EmptyObject

\* Buffer.isBuffer(req.body) ? JSON.parse(rawBody) : req.body
ParsedEvent(body) == IF body.seen = "buffer" THEN body.ev ELSE NoEvent

\* the provider's key, and a key of somebody who does not know it
ProviderKey == "sk_live"
Keys == {ProviderKey, "sk_forged"}

\* x-paystack-signature headers that may come with body b: none, the digest of b
\* under either key, and the provider's digest of other bytes
SignaturesFor(b) ==
    {None} \cup {Some(createHmac(k, b)) : k \in Keys}
           \cup {Some(createHmac(ProviderKey, IF b = Garbage THEN JsonBody(NoEvent) ELSE Garbage))}

Request(sig, body) == [sig |-> sig, body |-> body]

\* Lines 36-72 of the handler, up to the acknowledgement: the status code it
\* answers with. update(undefined) throws, and so does JSON.parse of bytes that
\* are no JSON, both before the 200 is sent; the catch block, finding no
\* headers sent, answers 500.
Acknowledge(sec, req) ==
    IF ~IsSome(sec) THEN 500
    ELSE IF ~IsSome(req.sig) THEN 401
    ELSE IF req.body.seen = "undefined" THEN 500
    ELSE IF Val(req.sig) # createHmac(Val(sec), rawBody(req.body)) THEN 401
    ELSE IF req.body.seen = "buffer" /\ ~req.body.json THEN 500
    ELSE 200

\* a switch that sends a type it has no case for down the downgrade branch
LookupAnyType(ev) ==
    IF ev.event = ChargeSuccess
    THEN (IF ev.hasData /\ IsSome(ev.email) THEN "email" ELSE "none")
    ELSE IF ev.hasData THEN "sub"
    ELSE "none"

\* The query the switch issues for an event, if any: "email", "sub" or "none".
\* Destructuring event.data when it is missing throws (caught after the
\* acknowledgement), a missing email or code breaks out of the switch, the
\* other types are logged.
Lookup(ev) ==
    IF ev.event = ChargeSuccess
    THEN (IF ev.hasData /\ IsSome(ev.email) THEN "email" ELSE "none")
    ELSE IF ev.event \in DisableTypes \cup {PaymentFailed}
    THEN (IF ev.hasData /\ IsSome(ev.sub) THEN "sub" ELSE "none")
    ELSE "none"

\* a query that falls back on any user when nobody matches
MatchesOrAnyone(ev, coll) ==
    IF Lookup(ev) = "email" /\ \E u \in Users : EmailOf(u) = toLowerCase(Val(ev.email))
    THEN {u \in Users : EmailOf(u) = toLowerCase(Val(ev.email))}
    ELSE IF Lookup(ev) = "sub" /\ \E u \in Users : coll[u].paystackSubscriptionId = ev.sub
    THEN {u \in Users : coll[u].paystackSubscriptionId = ev.sub}
    ELSE IF Lookup(ev) = "none" THEN {}
    ELSE Users

\* User.findOne(...): the users the query of ev matches
Matches(ev, coll) ==
    IF Lookup(ev) = "email"
    THEN {u \in Users : EmailOf(u) = toLowerCase(Val(ev.email))}
    ELSE IF Lookup(ev) = "sub"
    THEN {u \in Users : coll[u].paystackSubscriptionId = ev.sub}
    ELSE {}

\* the tier the charge.success branch assigns for a plan code
PlanFor(code) == IF code = MonthlyPlanCode THEN "monthly" ELSE "yearly"

\* the renewalDate the charge.success branch computes at time t
RenewalFor(code, t) ==
    IF code = MonthlyPlanCode THEN setMonthPlusOne(t) ELSE setFullYearPlusOne(t)

\* a handler whose invoice.payment_failed branch logs the failure and assigns
\* nothing
AssignedFailureLogged(ev, doc, t) ==
    IF ev.event = ChargeSuccess
    THEN (IF IsSome(ev.plan)
          THEN [plan |-> PlanFor(Val(ev.plan)),
                renewalDate |-> Some(RenewalFor(Val(ev.plan), t)),
                paystackSubscriptionId |-> ev.sub]
          ELSE doc)
    ELSE IF ev.event = PaymentFailed THEN doc
    ELSE Downgraded(doc)

\* The document in the handler's hands after its assignments, from the one it
\* fetched. A charge.success whose data.plan is missing throws on
\* plan.plan_code before any assignment.
Assigned(ev, doc, t) ==
    IF ev.event = ChargeSuccess
    THEN (IF IsSome(ev.plan)
          THEN [plan |-> PlanFor(Val(ev.plan)),
                renewalDate |-> Some(RenewalFor(Val(ev.plan), t)),
                paystackSubscriptionId |-> ev.sub]
          ELSE doc)
    ELSE Downgraded(doc)

\* document.save(): only the paths whose value differs from the fetched one are
\* written ($set, or $unset for undefined); the others keep what the
\* collection holds by then
SavePath(stored, fetched, assigned) == IF assigned # fetched THEN assigned ELSE stored
Save(stored, fetched, assigned) ==
    [plan |-> SavePath(stored.plan, fetched.plan, assigned.plan),
     renewalDate |-> SavePath(stored.renewalDate, fetched.renewalDate, assigned.renewalDate),
     paystackSubscriptionId |->
        SavePath(stored.paystackSubscriptionId, fetched.paystackSubscriptionId,
                 assigned.paystackSubscriptionId)]

----------------------------------------------------------------------------
(* Requests the model sends *)

\* bodies that arrive without the provider's signature over them: one per branch
ForgedBodies ==
    {JsonBody(Event(ChargeSuccess, TRUE, Some("U1@X.IO"), Some("SUB1"), Some(MonthlyPlanCode))),
     JsonBody(Event("subscription.disable", TRUE, None, Some("SUB1"), None)),
     JsonBody(Event(PaymentFailed, TRUE, None, Some("SUB1"), None)),
     JsonBody(Event("unknown.event", TRUE, None, None, None)),
     Garbage}

\* bodies that arrive with a content type other than application/json
SkippedBodies ==
    {Skipped(Event(ChargeSuccess, TRUE, Some("U1@X.IO"), Some("SUB1"), Some(MonthlyPlanCode)), l) :
        l \in ParserLeaves}

Requests ==
    {Request(Some(createHmac(ProviderKey, b)), b) : b \in Bodies}
    \cup UNION {{Request(sg, b) : sg \in SignaturesFor(b)} : b \in ForgedBodies}
    \cup UNION {{Request(sg, b) :
                    sg \in SignaturesFor(b) \cup {Some(createHmac(ProviderKey, EmptyObject))}} :
                 b \in SkippedBodies}

\* the provider's own deliveries of the events that end a subscription: the
\* JSON text under the provider's signature
DowngradeDeliveries ==
    {Request(Some(createHmac(ProviderKey, JsonBody(e))), JsonBody(e)) :
        e \in DisableEvents \cup FailedEvents}

\* the users whose onboarding, plan-selection and reactivation requests are
\* followed; the other user is reached by webhooks and cancellations only
Requesters == {"u1"}

\* req.body of completeOnboarding ('gold' is no plan) and of updatePlan
OnboardingPlans == {"free", "monthly", "yearly", "gold"}
UpdatePlanValues == {"free", "monthly", "yearly"}

\* a renewalDate of the body that new Date() turns into an Invalid Date
NotADate == 0 - 1

\* req.body of reactivateSubscription: plan, renewalDate (2024-02-28,
\* 2024-02-26, 2024-04-01 or no date at all) and paystackSubscriptionId
ReactivateBodies ==
    {<<Some("monthly"), Some(58), None>>,
     <<Some("yearly"), Some(56), Some("SUB2")>>,
     <<Some("weekly"), Some(91), Some("SUB2")>>,
     <<None, Some(91), None>>,
     <<Some("monthly"), None, Some("SUB2")>>,
     <<Some("yearly"), Some(NotADate), Some("SUB2")>>}

\* the cron job's grace window: 2 * 24 * 60 * 60 * 1000 ms
GraceDays == 2

----------------------------------------------------------------------------
(* History *)

\* what a delivery's signature header was: absent, the provider's digest of its
\* body, or something else
SignatureKind(req) ==
    IF ~IsSome(req.sig) THEN "missing"
    ELSE IF Val(req.sig) = createHmac(ProviderKey, req.body) THEN "provider"
    ELSE "other"

\* the deliveries whose application is remembered: a charge.success of the
\* monthly plan, and the subscription.disable and the invoice.payment_failed of
\* the same subscription
Followed ==
    {Event(ChargeSuccess, TRUE, Some("U1@X.IO"), Some("SUB1"), Some(MonthlyPlanCode)),
     Event("subscription.disable", TRUE, None, Some("SUB1"), None),
     Event(PaymentFailed, TRUE, None, Some("SUB1"), None)}

----------------------------------------------------------------------------
(* The initial state: every user as registration creates it *)

\* what the handler writes to the console when it drops a delivery: that the
\* event is unhandled (default branch), that no user was found; "-" stands for
\* nothing yet and for every other line
LogLines == {"-", "unhandled event", "user not found"}

\* no delivery in hand; resp, sig and log are the answer to the last one, the
\* kind of its signature and what was logged when it was dropped
IdleWebhook(resp, sig, log) ==
    [pc |-> "idle", ev |-> NoEvent, resp |-> resp, sig |-> sig, log |-> log,
     uid |-> "-", doc |-> FreeDoc]
\* no cancellation in hand; resp is the answer to the last one and log whether
\* the helper warned, during it, that the provider does not know the subscription
IdleCancel(resp, log) ==
    [pc |-> "idle", caller |-> "-", target |-> "-", sub |-> None,
     provider |-> "-", unsub |-> "-", log |-> log, resp |-> resp]

\* the clock starts on 2024-01-15
StartTime == MakeDate(2024, 0, 15)

\* the plans the admin has created: the free plan, which has no counterpart at
\* the provider, and the monthly plan at 10, created there at 10 * 100
PlanIds == {"p0", "p1"}
CreatedPlans ==
    [p \in PlanIds |->
        IF p = "p0"
        THEN [planName |-> "free", displayName |-> "Free", price |-> 0,
              isActive |-> TRUE, paystackPlanCode |-> None]
        ELSE [planName |-> "monthly", displayName |-> "Pro", price |-> 10,
              isActive |-> TRUE, paystackPlanCode |-> Some(MonthlyPlanCode)]]

\* no plan request is being handled; the last one was of this kind, got this
\* from the provider and was answered resp
IdlePlan(kind, provider, resp) ==
    [pc |-> "idle", kind |-> kind, id |-> "-", data |-> [displayName |-> None, price |-> None],
     provider |-> provider, resp |-> resp]

\* the subscription codes the provider gives out to the customer, in this order
ProviderSubs == {"SUB1", "SUB2", "SUB3"}

\* no createPaystackSubscription is running; the last one, made with (had) or
\* without a live subscription on the plan, returned { success, subscriptionCode,
\* error }
IdleCreate(had, result, code, error) ==
    [pc |-> "idle", had |-> had, faults |-> FALSE, todo |-> {},
     result |-> result, code |-> code, error |-> error]

\* no listing has been asked for
NoListing == [kind |-> "-", want |-> "-", code |-> 0, rows |-> {}]

Init ==
    /\ users = [u \in Users |-> FreeDoc]
    /\ now = StartTime
    /\ wh = IdleWebhook(0, "-", "-")
    /\ cn = IdleCancel(0, "-")
    /\ swept = [modified |-> 0, spared |-> 0, retry |-> "-"]
    /\ applied = {}
    /\ ops = 0
    /\ listing = NoListing
    /\ plans = CreatedPlans
    /\ paystack = [plans |-> [c \in {MonthlyPlanCode} |-> [name |-> "Pro", amount |-> 1000]],
                   subs |-> [c \in ProviderSubs |-> "none"]]
    /\ pl = IdlePlan("-", "-", 0)
    /\ cs = IdleCreate(FALSE, "-", None, "-")

----------------------------------------------------------------------------
(* paystackWebhook *)

\* a handler that enters the switch with the answer still to be sent
DispatchUnanswered(code, req) ==
    IF Lookup(ParsedEvent(req.body)) # "none"
    THEN [pc |-> "find", ev |-> ParsedEvent(req.body), resp |-> 0, sig |-> SignatureKind(req),
          log |-> "-", uid |-> "-", doc |-> FreeDoc]
    ELSE IdleWebhook(code, SignatureKind(req),
                     IF ParsedEvent(req.body).event \in HandledTypes THEN "-" ELSE "unhandled event")

\* res.status(200).json({ received: true }) followed by the switch: the delivery
\* as it stands at the first await of its branch, the answer already out. A
\* delivery whose branch issues no query is finished.
Dispatch(code, req) ==
    IF Lookup(ParsedEvent(req.body)) # "none"
    THEN [pc |-> "find", ev |-> ParsedEvent(req.body), resp |-> code, sig |-> SignatureKind(req),
          log |-> "-", uid |-> "-", doc |-> FreeDoc]
    ELSE IdleWebhook(code, SignatureKind(req),
                     IF ParsedEvent(req.body).event \in HandledTypes THEN "-" ELSE "unhandled event")

\* From the request to the first await: the configuration and signature checks,
\* JSON.parse, the 200 and the branch's synchronous part up to User.findOne.
WebhookReceive(sec, req) ==
    /\ wh.pc = "idle"
    /\ ops < MaxOps
    /\ wh' = IF Acknowledge(sec, req) = 200
             THEN Dispatch(200, req)
             ELSE IdleWebhook(Acknowledge(sec, req), SignatureKind(req), "-")
    /\ ops' = ops + 1
    /\ UNCHANGED <<users, now, cn, applied, swept, listing, catalogue>>

\* User.findOne resolves: with a matching document, with none, or (~ok) with a
\* store error that ends the handler, the response being out already
WebhookFind(ok) ==
    /\ wh.pc = "find"
    /\ IF ok /\ Matches(wh.ev, users) # {}
       THEN \E u \in Matches(wh.ev, users) :
                wh' = [wh EXCEPT !.pc = "save", !.uid = u, !.doc = users[u]]
       ELSE wh' = IdleWebhook(wh.resp, wh.sig, IF ok THEN "user not found" ELSE "-")
    /\ UNCHANGED <<users, now, cn, applied, swept, ops, listing, catalogue>>

\* the assignments to the fetched document and user.save(), which succeeds or
\* (~ok) fails with an error that is logged
WebhookSave(ok) ==
    /\ wh.pc = "save"
    /\ IF ok
       THEN /\ users' = [users EXCEPT ![wh.uid] =
                            Save(@, wh.doc, Assigned(wh.ev, wh.doc, now))]
            /\ applied' = applied \cup ({wh.ev} \cap Followed)
       ELSE UNCHANGED <<users, applied>>
    /\ wh' = IdleWebhook(wh.resp, wh.sig, "-")
    /\ UNCHANGED <<now, cn, swept, ops, listing, catalogue>>

----------------------------------------------------------------------------
(* cancelSubscription (POST /api/subscriptions/:userId/cancel) *)

\* a check that lets every authenticated caller through
MayCancelAnyone(caller, target) == caller \in Callers

\* the caller is the subscriber or holds an elevated role
MayCancel(caller, target) == caller = target \/ RoleOf(caller) \in {"admin", "moderator"}

\* user.renewalDate && user.renewalDate <= now
IsExpired(doc, t) == IsSome(doc.renewalDate) /\ Val(doc.renewalDate) <= t

\* the answer of the checks before the provider call, 0 when they all pass
CancelCode(caller, target, doc, t) ==
    IF ~MayCancel(caller, target) THEN 403
    ELSE IF doc.plan = "free" THEN 400
    ELSE IF IsExpired(doc, t) THEN 400
    ELSE 0

\* a helper that reports a subscription unknown to the provider as a failure
unsubscribeStrict(outcome) == IF outcome = "ok" THEN "success" ELSE "failure"

\* unsubscribePaystackSubscription: the provider accepts the disable ("ok"),
\* answers 404 ("notfound"), or refuses or cannot be reached ("failed")
ProviderOutcomes == {"ok", "notfound", "failed"}
unsubscribePaystackSubscription(outcome) ==
    IF outcome \in {"ok", "notfound"} THEN "success" ELSE "failure"

\* the authorization check, User.findById and the checks on the fetched user
CancelStart(caller, target) ==
    /\ cn.pc = "idle"
    /\ ops < MaxOps
    /\ cn' = IF CancelCode(caller, target, users[target], now) # 0
             THEN IdleCancel(CancelCode(caller, target, users[target], now), "-")
             ELSE [pc |-> IF IsSome(users[target].paystackSubscriptionId)
                          THEN "unsub" ELSE "update",
                   caller |-> caller, target |-> target,
                   sub |-> users[target].paystackSubscriptionId,
                   provider |-> "-", unsub |-> "-", log |-> "-", resp |-> 0]
    /\ ops' = ops + 1
    /\ UNCHANGED <<users, now, wh, applied, swept, listing, catalogue>>

\* what the helper and the handler write to the console for an outcome: the
\* helper's warning on a 404, else the handler's line for its result
UnsubscribeLog(outcome) ==
    IF outcome = "notfound" THEN "not found on Paystack"
    ELSE IF unsubscribePaystackSubscription(outcome) = "success"
         THEN "cancelled on Paystack"
         ELSE "failed on Paystack"

\* a local update that ends the paid period at once
CancelUpdateDowngrades(ok) ==
    /\ cn.pc = "update"
    /\ users' = IF ok THEN [users EXCEPT ![cn.target] = Downgraded(@)] ELSE users
    /\ cn' = IdleCancel(IF ok THEN 200 ELSE 500, cn.log)
    /\ UNCHANGED <<now, wh, applied, ops, swept, listing, catalogue>>

\* unsubscribePaystackSubscription(user.paystackSubscriptionId) answers; a
\* failure is logged and the handler goes on
CancelUnsubscribe(outcome) ==
    /\ cn.pc = "unsub"
    /\ cn' = [cn EXCEPT !.pc = "update", !.provider = outcome,
                        !.unsub = unsubscribePaystackSubscription(outcome),
                        !.log = UnsubscribeLog(outcome)]
    /\ UNCHANGED <<users, now, wh, applied, ops, swept, listing, catalogue>>

\* User.findByIdAndUpdate(userId, { $unset: { paystackSubscriptionId: 1 } }) and
\* the 200; (~ok) an error of the store is answered 500
CancelUpdate(ok) ==
    /\ cn.pc = "update"
    /\ users' = IF ok THEN [users EXCEPT ![cn.target].paystackSubscriptionId = None]
                ELSE users
    /\ cn' = IdleCancel(IF ok THEN 200 ELSE 500, cn.log)
    /\ UNCHANGED <<now, wh, applied, ops, swept, listing, catalogue>>

----------------------------------------------------------------------------
(* reactivateSubscription (POST /api/subscriptions/:userId/reactivate) *)

\* a validation that takes every plan name
ReactivateCodeAnyPlan(caller, plan, renewalDate) ==
    IF RoleOf(caller) \notin {"admin", "moderator"} THEN 403
    ELSE IF ~IsSome(plan) THEN 400
    ELSE IF ~IsSome(renewalDate) THEN 400
    ELSE IF Val(renewalDate) = NotADate THEN 500
    ELSE 200

\* the answer of the handler; an Invalid Date fails the cast of the update,
\* which the catch answers 500
ReactivateCode(caller, plan, renewalDate) ==
    IF RoleOf(caller) \notin {"admin", "moderator"} THEN 403
    ELSE IF ~IsSome(plan) \/ Val(plan) \notin {"monthly", "yearly"} THEN 400
    ELSE IF ~IsSome(renewalDate) THEN 400
    ELSE IF Val(renewalDate) = NotADate THEN 500
    ELSE 200

\* updateData of the handler applied to a document
ReactivateUpdate(doc, plan, renewalDate, subId) ==
    [plan |-> Val(plan),
     renewalDate |-> renewalDate,
     paystackSubscriptionId |-> IF IsSome(subId) THEN subId ELSE doc.paystackSubscriptionId]

reactivateSubscription(caller, target, body) ==
    /\ ops < MaxOps
    /\ users' = IF ReactivateCode(caller, body[1], body[2]) = 200
                THEN [users EXCEPT ![target] = ReactivateUpdate(@, body[1], body[2], body[3])]
                ELSE users
    /\ ops' = ops + 1
    /\ UNCHANGED <<now, wh, cn, applied, swept, listing, catalogue>>

----------------------------------------------------------------------------
(* completeOnboarding and updatePlan (onboarding controller) *)

\* new Date(now.getFullYear(), now.getMonth() + 1, now.getDate()) for monthly,
\* new Date(now.getFullYear() + 1, now.getMonth(), now.getDate()) for yearly
OnboardingRenewal(plan, t) ==
    IF plan = "monthly" THEN Some(MakeDate(getFullYear(t), getMonth(t) + 1, getDate(t)))
    ELSE IF plan = "yearly" THEN Some(MakeDate(getFullYear(t) + 1, getMonth(t), getDate(t)))
    ELSE None

\* User.findByIdAndUpdate(userId, { ..., plan, renewalDate, ... }): a key whose
\* value is undefined is left out of the update, so the stored renewalDate
\* stays when the plan is free; paystackSubscriptionId is no key of the update
OnboardingUpdate(doc, plan, t) ==
    [doc EXCEPT !.plan = plan,
                !.renewalDate = IF IsSome(OnboardingRenewal(plan, t))
                                THEN OnboardingRenewal(plan, t) ELSE @]

completeOnboarding(u, plan) ==
    /\ ops < MaxOps
    /\ LET code == IF plan \notin {"free", "monthly", "yearly"} THEN 400 ELSE 200
       IN  /\ users' = IF code = 200
                       THEN [users EXCEPT ![u] = OnboardingUpdate(@, plan, now)]
                       ELSE users
    /\ ops' = ops + 1
    /\ UNCHANGED <<now, wh, cn, applied, swept, listing, catalogue>>

updatePlan(u, value) ==
    /\ ops < MaxOps
    /\ LET code == IF value \notin {"monthly", "yearly"} THEN 400
                   ELSE IF users[u].plan # "free" THEN 403
                   ELSE 200
       IN  /\ users' = IF code = 200
                       THEN [users EXCEPT ![u] = OnboardingUpdate(@, value, now)]
                       ELSE users
    /\ ops' = ops + 1
    /\ UNCHANGED <<now, wh, cn, applied, swept, listing, catalogue>>

----------------------------------------------------------------------------
(* The daily cron job *)

\* a filter with no grace window
SweepSelectsAtRenewal(doc, t) ==
    /\ IsSome(doc.renewalDate)
    /\ Val(doc.renewalDate) < t
    /\ doc.plan \in {"monthly", "yearly"}

\* a filter that passes over the subscribers who hold no subscription id
SweepSelectsSubscribed(doc, t) ==
    /\ IsSome(doc.renewalDate)
    /\ Val(doc.renewalDate) < t - GraceDays
    /\ doc.plan \in {"monthly", "yearly"}
    /\ IsSome(doc.paystackSubscriptionId)

\* the filter of User.updateMany: renewalDate: { $exists: true, $lt: twoDaysAgo },
\* plan: { $in: ['monthly', 'yearly'] }
SweepSelects(doc, t) ==
    /\ IsSome(doc.renewalDate)
    /\ Val(doc.renewalDate) < t - GraceDays
    /\ doc.plan \in {"monthly", "yearly"}

\* a paid subscriber whose renewalDate has passed
Lapsed(doc, t) ==
    /\ doc.plan \in {"monthly", "yearly"}
    /\ IsSome(doc.renewalDate)
    /\ Val(doc.renewalDate) < t

\* a run that marks its subscribers free before the store has taken the update
SweepEager(ok) ==
    /\ ops < MaxOps
    /\ users' = [u \in Users |->
                    IF SweepSelects(users[u], now)
                    THEN IF ok THEN Downgraded(users[u]) ELSE [users[u] EXCEPT !.plan = "free"]
                    ELSE users[u]]
    /\ swept' = [modified |-> Cardinality({u \in Users : SweepSelects(users[u], now)}),
                 spared |-> Cardinality({u \in Users : Lapsed(users[u], now)
                                                       /\ ~SweepSelects(users[u], now)}),
                 retry |-> IF ok /\ swept.retry = "pending" THEN "done"
                           ELSE IF ok THEN "-" ELSE "pending"]
    /\ ops' = ops + 1
    /\ UNCHANGED <<now, wh, cn, applied, listing, catalogue>>

\* one run: User.updateMany applies the filter and the update to each document
\* atomically; (~ok) an error of the store is caught and logged
SweepRun(ok) ==
    /\ users' = IF ok
                THEN [u \in Users |->
                        IF SweepSelects(users[u], now) THEN Downgraded(users[u])
                        ELSE users[u]]
                ELSE users
    /\ swept' = IF ok
                THEN [modified |-> Cardinality({u \in Users : SweepSelects(users[u], now)}),
                      spared |-> Cardinality({u \in Users : Lapsed(users[u], now)
                                                            /\ ~SweepSelects(users[u], now)}),
                      retry |-> IF swept.retry = "pending" THEN "done" ELSE "-"]
                ELSE [swept EXCEPT !.retry = IF \E u \in Users : SweepSelects(users[u], now)
                                             THEN "pending" ELSE @]

\* a run among the requests that are followed
Sweep(ok) ==
    /\ ops < MaxOps
    /\ SweepRun(ok)
    /\ ops' = ops + 1
    /\ UNCHANGED <<now, wh, cn, applied, listing, catalogue>>

\* cron.schedule('0 0 * * *', ...): the job runs every day, however many
\* requests the server has answered
Cron(ok) ==
    /\ SweepRun(ok)
    /\ UNCHANGED <<now, wh, cn, applied, ops, listing, catalogue>>

----------------------------------------------------------------------------
(* The listings of the staff (GET /api/subscriptions/active, /status/:status) *)

Statuses == {"free", "active", "canceled", "expired"}

\* req.params.status: the four statuses and one that is none
StatusQueries == Statuses \cup {"paused"}

\* the query of getActiveSubscribers: plan: { $ne: 'free' },
\* renewalDate: { $gt: new Date() }; every modelled user is an active,
\* undeleted account of role user, and one page holds them all
ActiveQuery(doc, t) ==
    /\ doc.plan # "free"
    /\ IsSome(doc.renewalDate)
    /\ Val(doc.renewalDate) > t

\* User.find(query) and the map that adds subscriptionStatus to each row
getActiveSubscribers ==
    /\ listing' = [kind |-> "active", want |-> "-", code |-> 200,
                   rows |-> {<<u, getSubscriptionStatus(users[u], now)>> :
                                u \in {v \in Users : ActiveQuery(users[v], now)}}]
    /\ UNCHANGED <<users, now, wh, cn, applied, swept, ops, catalogue>>

\* the status is validated, every user is fetched, filtered in memory by
\* getSubscriptionStatus(user) === requestedStatus and given its status
getSubscribersByStatus(status) ==
    /\ listing' = IF status \notin {"active", "canceled", "expired", "free"}
                  THEN [kind |-> "status", want |-> status, code |-> 400, rows |-> {}]
                  ELSE [kind |-> "status", want |-> status, code |-> 200,
                        rows |-> {<<u, getSubscriptionStatus(users[u], now)>> :
                                    u \in {v \in Users :
                                        getSubscriptionStatus(users[v], now) = status}}]
    /\ UNCHANGED <<users, now, wh, cn, applied, swept, ops, catalogue>>

----------------------------------------------------------------------------
(* updatePlan and deletePlan of the plan controller (PUT, DELETE /api/plans/:planId) *)

\* req.body of updatePlan: a new displayName, a new price, a negative price
\* (which the schema's validator rejects), or nothing
PlanBodies ==
    {[displayName |-> Some("Plus"), price |-> None],
     [displayName |-> None, price |-> Some(20)],
     [displayName |-> None, price |-> Some(0 - 1)],
     [displayName |-> None, price |-> None]}

\* the plan has a counterpart at the provider
OnPaystack(plan) == IsSome(plan.paystackPlanCode) /\ plan.planName # "free"

\* paystackUpdateData has a key: displayName is given, or price is given and truthy
PaystackUpdateData(data) ==
    IsSome(data.displayName) \/ (IsSome(data.price) /\ Val(data.price) # 0)

\* Plan.findById and the checks of updatePlan, up to the call of the provider
PlanUpdateStart(p, data) ==
    /\ pl.pc = "idle"
    /\ ops < MaxOps
    /\ pl' = [pc |-> IF OnPaystack(plans[p]) /\ PaystackUpdateData(data)
                     THEN "provider" ELSE "write",
              kind |-> "update", id |-> p, data |-> data, provider |-> "-", resp |-> 0]
    /\ ops' = ops + 1
    /\ UNCHANGED <<billing, plans, paystack, cs>>

\* Plan.findById of deletePlan, up to the call of the provider
PlanDeleteStart(p) ==
    /\ pl.pc = "idle"
    /\ ops < MaxOps
    /\ pl' = [pc |-> IF OnPaystack(plans[p]) THEN "provider" ELSE "write",
              kind |-> "delete", id |-> p, data |-> [displayName |-> None, price |-> None],
              provider |-> "-", resp |-> 0]
    /\ ops' = ops + 1
    /\ UNCHANGED <<billing, plans, paystack, cs>>

\* what an accepted PUT /plan/:code leaves at the provider: updatePaystackPlan
\* sends name and amount (price * 100), deactivatePaystackPlan a new name
PaystackPlanAfter(remote, kind, data) ==
    IF kind = "delete" THEN [remote EXCEPT !.name = "INACTIVE"]
    ELSE [name |-> IF IsSome(data.displayName) THEN Val(data.displayName) ELSE remote.name,
          amount |-> IF IsSome(data.price) /\ Val(data.price) # 0
                     THEN Val(data.price) * 100 ELSE remote.amount]

\* a handler that gives up when the provider does
PlanProviderStrict(outcome) ==
    /\ pl.pc = "provider"
    /\ paystack' = IF outcome = "ok"
                   THEN [paystack EXCEPT !.plans[Val(plans[pl.id].paystackPlanCode)] =
                            PaystackPlanAfter(@, pl.kind, pl.data)]
                   ELSE paystack
    /\ pl' = IF outcome = "ok" THEN [pl EXCEPT !.pc = "write", !.provider = outcome]
             ELSE IdlePlan(pl.kind, outcome, 500)
    /\ UNCHANGED <<billing, ops, plans, cs>>

\* updatePaystackPlan / deactivatePaystackPlan returns: the provider took the
\* change ("ok"), or refused it or could not be reached ("failed"), which is
\* logged before the handler goes on
PlanOutcomes == {"ok", "failed"}
PlanProvider(outcome) ==
    /\ pl.pc = "provider"
    /\ paystack' = IF outcome = "ok"
                   THEN [paystack EXCEPT !.plans[Val(plans[pl.id].paystackPlanCode)] =
                            PaystackPlanAfter(@, pl.kind, pl.data)]
                   ELSE paystack
    /\ pl' = [pl EXCEPT !.pc = "write", !.provider = outcome]
    /\ UNCHANGED <<billing, ops, plans, cs>>

\* updateData applied to a document
PlanAfter(plan, data) ==
    [plan EXCEPT !.displayName = IF IsSome(data.displayName) THEN Val(data.displayName) ELSE @,
                 !.price = IF IsSome(data.price) THEN Val(data.price) ELSE @]

\* the answer of the local write: Plan.findByIdAndUpdate with runValidators
\* (price has min 0; a ValidationError is answered 400), or plan.save() of the
\* soft delete; (~ok) an error of the store is answered 500
PlanWriteCode(kind, data, ok) ==
    IF ~ok THEN 500
    ELSE IF kind = "update" /\ IsSome(data.price) /\ Val(data.price) < 0 THEN 400
    ELSE 200

PlanWrite(ok) ==
    /\ pl.pc = "write"
    /\ plans' = IF PlanWriteCode(pl.kind, pl.data, ok) # 200 THEN plans
                ELSE IF pl.kind = "update"
                     THEN [plans EXCEPT ![pl.id] = PlanAfter(@, pl.data)]
                     ELSE [plans EXCEPT ![pl.id].isActive = FALSE]
    /\ pl' = IdlePlan(pl.kind, pl.provider, PlanWriteCode(pl.kind, pl.data, ok))
    /\ UNCHANGED <<billing, ops, paystack, cs>>

----------------------------------------------------------------------------
(* createPaystackSubscription (utils/paystack.ts) for one customer and the monthly plan *)

\* the subscriptions the first listing picks for cancelling: those on the plan
\* in status active or non-renewing
SamePlanSubscriptions(subs) == {c \in ProviderSubs : subs[c] \in {"active", "non-renewing"}}

\* the subscription the fallback looks for: one on the plan in status active
ActiveSubscriptions(subs) == {c \in ProviderSubs : subs[c] = "active"}

\* the subscriptions on the plan that have not run out
LiveSubscriptions(subs) == {c \in ProviderSubs : subs[c] \in {"active", "non-renewing"}}

\* the code the provider gives to the next subscription it creates
NextCode(subs) ==
    IF subs["SUB1"] = "none" THEN "SUB1" ELSE IF subs["SUB2"] = "none" THEN "SUB2" ELSE "SUB3"

\* the call, with customPlanCode given or not; without it the function returns
\* an error at once
createPaystackSubscription(customPlanCode) ==
    /\ cs.pc = "idle"
    /\ ops < MaxOps
    /\ cs' = IF ~IsSome(customPlanCode)
             THEN IdleCreate(SamePlanSubscriptions(paystack.subs) # {}, "failure", None,
                             "plan code not configured")
             ELSE [pc |-> "list", had |-> SamePlanSubscriptions(paystack.subs) # {},
                   faults |-> FALSE, todo |-> {}, result |-> "-", code |-> None, error |-> "-"]
    /\ ops' = ops + 1
    /\ UNCHANGED <<billing, plans, paystack, pl>>

\* getCustomerSubscriptions returns: the list, or (~ok) an error, after which
\* nothing is cancelled
SubscriptionList(ok) ==
    /\ cs.pc = "list"
    /\ cs' = IF ok /\ SamePlanSubscriptions(paystack.subs) # {}
             THEN [cs EXCEPT !.pc = "disable", !.todo = SamePlanSubscriptions(paystack.subs)]
             ELSE [cs EXCEPT !.pc = "create", !.faults = @ \/ ~ok]
    /\ UNCHANGED <<billing, ops, plans, paystack, pl>>

\* what the provider makes of a subscription it disables: it renews no more,
\* and is cancelled at once or at the end of the paid period
DisabledStatuses == {"non-renewing", "cancelled"}

\* disablePaystackSubscription of one of the listed subscriptions returns; a
\* failure is logged; after the last one the function waits and goes on
SubscriptionDisable(c, outcome, status) ==
    /\ cs.pc = "disable"
    /\ c \in cs.todo
    /\ paystack' = IF outcome = "ok" THEN [paystack EXCEPT !.subs[c] = status] ELSE paystack
    /\ cs' = [cs EXCEPT !.todo = @ \ {c},
                        !.pc = IF cs.todo = {c} THEN "create" ELSE "disable",
                        !.faults = @ \/ outcome = "failed"]
    /\ UNCHANGED <<billing, ops, plans, pl>>

\* the answers the provider may give to POST /subscription: it creates the
\* subscription unless the customer has an active one on the plan; it may
\* refuse with duplicate_subscription while one on the plan is active or has not
\* run out; or the call fails otherwise
CreateOutcomes(subs) ==
    {"error"}
    \cup (IF ActiveSubscriptions(subs) = {} /\ subs["SUB3"] = "none" THEN {"created"} ELSE {})
    \cup (IF LiveSubscriptions(subs) # {} THEN {"duplicate"} ELSE {})

\* POST /customer, whose errors are swallowed, and POST /subscription
SubscriptionPost(outcome) ==
    /\ cs.pc = "create"
    /\ outcome \in CreateOutcomes(paystack.subs)
    /\ paystack' = IF outcome = "created"
                   THEN [paystack EXCEPT !.subs[NextCode(paystack.subs)] = "active"]
                   ELSE paystack
    /\ cs' = IF outcome = "created"
             THEN IdleCreate(cs.had, "success", Some(NextCode(paystack.subs)), "-")
             ELSE IF outcome = "duplicate"
             THEN [cs EXCEPT !.pc = "fallback"]
             ELSE [IdleCreate(cs.had, "failure", None, "request failed") EXCEPT !.faults = TRUE]
    /\ UNCHANGED <<billing, ops, plans, pl>>

\* the catch block on duplicate_subscription: getCustomerSubscriptions again,
\* and the first active subscription on the plan, if there is one, is returned;
\* else the provider's error is
SubscriptionFallbackWith(candidates, ok) ==
    /\ cs.pc = "fallback"
    /\ IF ok /\ candidates # {}
       THEN \E c \in candidates : cs' = IdleCreate(cs.had, "success", Some(c), "-")
       ELSE cs' = [IdleCreate(cs.had, "failure", None, "duplicate_subscription")
                    EXCEPT !.faults = cs.faults \/ ~ok]
    /\ UNCHANGED <<billing, ops, plans, paystack, pl>>

SubscriptionFallback(ok) == SubscriptionFallbackWith(ActiveSubscriptions(paystack.subs), ok)

----------------------------------------------------------------------------
(* Time passes *)

Tick ==
    /\ \E t \in TimePoints : t > now /\ now' = t
    /\ UNCHANGED <<users, wh, cn, applied, swept, ops, listing, catalogue>>

\* the last day of the calendar the cron job is followed over: 2024-03-03
LastDay == 62

\* days pass: to 2024-02-29 (day 59), and on to the last day
Day ==
    /\ \E t \in {59, LastDay} : t > now /\ now' = t
    /\ UNCHANGED <<users, wh, cn, applied, swept, ops, listing, catalogue>>

----------------------------------------------------------------------------

Next ==
    \/ \E sec \in Opt({ProviderKey}), req \in Requests : WebhookReceive(sec, req)
    \/ \E ok \in BOOLEAN : WebhookFind(ok)
    \/ \E ok \in BOOLEAN : WebhookSave(ok)
    \/ \E c \in Callers, t \in Users : CancelStart(c, t)
    \/ \E o \in ProviderOutcomes : CancelUnsubscribe(o)
    \/ \E ok \in BOOLEAN : CancelUpdate(ok)
    \/ \E c \in Callers, t \in Requesters, b \in ReactivateBodies :
            reactivateSubscription(c, t, b)
    \/ \E u \in Requesters, p \in OnboardingPlans : completeOnboarding(u, p)
    \/ \E u \in Requesters, v \in UpdatePlanValues : updatePlan(u, v)
    \/ \E ok \in BOOLEAN : Sweep(ok)
    \/ Tick

Spec == Init /\ [][Next]_vars

\* the behaviours in which the provider's deliveries and the cron job are all
\* that happens: no authenticated request arrives
NextDeliveries ==
    \/ \E sec \in Opt({ProviderKey}), req \in Requests : WebhookReceive(sec, req)
    \/ \E ok \in BOOLEAN : WebhookFind(ok)
    \/ \E ok \in BOOLEAN : WebhookSave(ok)
    \/ \E ok \in BOOLEAN : Sweep(ok)
    \/ Tick

SpecDeliveries == Init /\ [][NextDeliveries]_vars

\* the behaviours of deliveries, cron job and reactivations by the staff
NextSubscriptions ==
    \/ NextDeliveries
    \/ \E c \in Callers, t \in Requesters, b \in ReactivateBodies :
            reactivateSubscription(c, t, b)

SpecSubscriptions == Init /\ [][NextSubscriptions]_vars

\* the behaviours in which the cron job runs every day for ever: days pass,
\* and a run whose update the store takes comes again and again. The staff
\* reactivates subscribers; the provider delivers the events that end a
\* subscription, or does not, and the handler finds and saves, or fails
NextDaily ==
    \/ \E req \in DowngradeDeliveries : WebhookReceive(Some(ProviderKey), req)
    \/ \E ok \in BOOLEAN : WebhookFind(ok)
    \/ \E ok \in BOOLEAN : WebhookSave(ok)
    \/ \E c \in {"admin", "mod"}, t \in Requesters, b \in ReactivateBodies :
            reactivateSubscription(c, t, b)
    \/ \E ok \in BOOLEAN : Cron(ok)
    \/ Day

SpecDaily == Init /\ [][NextDaily]_vars /\ WF_vars(Cron(TRUE)) /\ WF_vars(Day)

\* the behaviours of cancellations, reactivations and the cron job: the
\* provider delivers nothing
NextCancellations ==
    \/ \E c \in Callers, t \in Users : CancelStart(c, t)
    \/ \E o \in ProviderOutcomes : CancelUnsubscribe(o)
    \/ \E ok \in BOOLEAN : CancelUpdate(ok)
    \/ \E c \in Callers, t \in Requesters, b \in ReactivateBodies :
            reactivateSubscription(c, t, b)
    \/ \E ok \in BOOLEAN : Sweep(ok)
    \/ Tick

SpecCancellations == Init /\ [][NextCancellations]_vars

\* the listings read the collection and write nothing to it; here they are
\* asked for between cancellations, reactivations and runs of the cron job
NextListings ==
    \/ NextCancellations
    \/ getActiveSubscribers
    \/ \E s \in StatusQueries : getSubscribersByStatus(s)

SpecListings == Init /\ [][NextListings]_vars

\* the behaviours of the plan controller
NextPlans ==
    \/ \E p \in PlanIds, d \in PlanBodies : PlanUpdateStart(p, d)
    \/ \E p \in PlanIds : PlanDeleteStart(p)
    \/ \E o \in PlanOutcomes : PlanProvider(o)
    \/ \E ok \in BOOLEAN : PlanWrite(ok)

SpecPlans == Init /\ [][NextPlans]_vars

\* the behaviours of createPaystackSubscription against the provider
NextProvider ==
    \/ \E c \in Opt({MonthlyPlanCode}) : createPaystackSubscription(c)
    \/ \E ok \in BOOLEAN : SubscriptionList(ok)
    \/ \E c \in ProviderSubs, o \in ProviderOutcomes, st \in DisabledStatuses :
            SubscriptionDisable(c, o, st)
    \/ \E o \in {"created", "duplicate", "error"} : SubscriptionPost(o)
    \/ \E ok \in BOOLEAN : SubscriptionFallback(ok)

SpecProvider == Init /\ [][NextProvider]_vars

\* the billing fields a document can hold, and the collections made of them
StatusDocs ==
    [plan : {"free", "monthly", "yearly"},
     renewalDate : Opt(TimePoints),
     paystackSubscriptionId : Opt({"SUB1"})]

\* the listings over every such collection at every time point
InitStatus ==
    /\ users \in [Users -> StatusDocs]
    /\ now \in TimePoints
    /\ wh = IdleWebhook(0, "-", "-")
    /\ cn = IdleCancel(0, "-")
    /\ swept = [modified |-> 0, spared |-> 0, retry |-> "-"]
    /\ applied = {}
    /\ ops = 0
    /\ listing = NoListing
    /\ plans = CreatedPlans
    /\ paystack = [plans |-> [c \in {MonthlyPlanCode} |-> [name |-> "Pro", amount |-> 1000]],
                   subs |-> [c \in ProviderSubs |-> "none"]]
    /\ pl = IdlePlan("-", "-", 0)
    /\ cs = IdleCreate(FALSE, "-", None, "-")

NextStatus ==
    \/ getActiveSubscribers
    \/ \E s \in StatusQueries : getSubscribersByStatus(s)

SpecStatus == InitStatus /\ [][NextStatus]_vars

----------------------------------------------------------------------------
(* Properties: billing-field invariant and idempotence of deliveries *)

\* C1: in every reachable state a subscriber whose plan is free has neither a
\* renewalDate nor a paystackSubscriptionId.
FreeHasNoBillingFields ==
    \A u \in Users :
        users[u].plan = "free" =>
            /\ users[u].renewalDate = None
            /\ users[u].paystackSubscriptionId = None

\* the record of user u is exactly what one application of the charge.success
\* event ev to it left, at some time t1 not later than now
AppliedOnce(ev, u) ==
    /\ ev \in applied
    /\ wh.doc = users[u]
    /\ \E t1 \in TimePoints : t1 <= now /\ users[u] = Assigned(ev, users[u], t1)

\* C2: applying the same charge.success event a second time, at a time not
\* earlier than the first, to the record the first application left, leaves
\* {plan, renewalDate, paystackSubscriptionId} as they are.
ChargeAppliedTwiceIsOnce ==
    [][(WebhookSave(TRUE) /\ wh.ev.event = ChargeSuccess /\ AppliedOnce(wh.ev, wh.uid))
            => users' = users]_vars

\* C3: a re-delivery of an already-applied charge.success event that arrives
\* after a subscription.disable for the same subscriber has been applied, and
\* finds the subscriber on the free plan the disable left, changes no
\* subscriber's {plan, renewalDate, paystackSubscriptionId}.
RedeliveryAfterOtherEventsIsNoOp ==
    [][(/\ WebhookSave(TRUE)
        /\ wh.ev.event = ChargeSuccess
        /\ wh.ev \in applied
        /\ \E d \in applied : d.event \in DisableTypes /\ d.sub = wh.ev.sub
        /\ wh.doc = FreeDoc
        /\ users[wh.uid] = FreeDoc)
            => users' = users]_vars

----------------------------------------------------------------------------
(* Properties: the webhook's answer *)

\* the signature header of req is the HMAC of its body under the secret sec
Verifies(sec, req) == IsSome(req.sig) /\ Val(req.sig) = createHmac(Val(sec), req.body)

\* the requests whose signature header is missing or is not the HMAC of their
\* body under the configured secret
Unverified == {req \in Requests : ~Verifies(Some(ProviderKey), req)}

\* C4: with the shared secret configured, a delivery whose signature header is
\* missing or is not the HMAC of the body under the secret is answered 401 and
\* ends there: no query is issued for it and no subscriber record changes,
\* whatever event it carries.
BadSignatureRejected ==
    [][\A req \in Unverified :
            WebhookReceive(Some(ProviderKey), req)
                => (wh'.resp = 401 /\ wh'.pc = "idle" /\ users' = users)]_vars

\* C5: every delivery whose signature verifies is answered 200, whatever its
\* body; 500 is answered only when the shared secret is not configured.
VerifiedAlwaysAnswered200 ==
    [][\A sec \in Opt({ProviderKey}), req \in Requests :
            WebhookReceive(sec, req)
                => /\ (IsSome(sec) /\ Verifies(sec, req)) => wh'.resp = 200
                   /\ wh'.resp = 500 => ~IsSome(sec)]_vars

\* C6: whenever a delivery is at its User.findOne or at its user.save(), the
\* 200 for that delivery, whose signature verified, has already been sent.
AcknowledgedBeforeProcessing ==
    wh.pc \in {"find", "save"} => (wh.resp = 200 /\ wh.sig = "provider")

\* a delivery answered 200 has gone on to change a subscriber record
AcknowledgedBeforeProcessingSeen ==
    /\ wh.pc = "idle"
    /\ wh.resp = 200
    /\ applied # {}
    /\ \E u \in Users : users[u] # FreeDoc

----------------------------------------------------------------------------
(* Properties: what a charge.success leaves *)

Min(a, b) == IF a <= b THEN a ELSE b

\* t plus one calendar month and t plus one calendar year: the same day of the
\* month in the target month, or that month's last day when it has no such day
AddCalendarMonth(t) ==
    LET y == getFullYear(t) + ((getMonth(t) + 1) \div 12)
        m == (getMonth(t) + 1) % 12
    IN  MakeDate(y, m, Min(getDate(t), DaysInMonth(y, m)))
AddCalendarYear(t) ==
    MakeDate(getFullYear(t) + 1, getMonth(t),
             Min(getDate(t), DaysInMonth(getFullYear(t) + 1, getMonth(t))))

\* the delivery in hand is a charge.success, carrying a plan, whose save succeeds
\* in this step on the document as it was fetched
ChargeSaved ==
    /\ WebhookSave(TRUE)
    /\ wh.ev.event = ChargeSuccess
    /\ IsSome(wh.ev.plan)
    /\ wh.doc = users[wh.uid]

\* C7: a charge.success for the monthly plan code, carrying a subscription
\* code and applied at time T to a subscriber on the free plan, leaves plan =
\* monthly, renewalDate = T plus one calendar month and paystackSubscriptionId =
\* the event's code, and the status derived at T is active.
MonthlyChargeOnFree ==
    [][(ChargeSaved /\ wh.ev.plan = Some(MonthlyPlanCode) /\ IsSome(wh.ev.sub)
            /\ users[wh.uid].plan = "free")
        => /\ users'[wh.uid] = [plan |-> "monthly",
                                renewalDate |-> Some(AddCalendarMonth(now)),
                                paystackSubscriptionId |-> wh.ev.sub]
           /\ getSubscriptionStatus(users'[wh.uid], now) = "active"]_vars

\* C8: the renewalDate a charge.success leaves is the time of processing plus
\* one calendar month (monthly plan code) or one calendar year, a day the
\* target month lacks becoming that month's last day.
RenewalIsCalendarAware ==
    [][ChargeSaved
        => users'[wh.uid].renewalDate =
              Some(IF users'[wh.uid].plan = "monthly"
                   THEN AddCalendarMonth(now) ELSE AddCalendarYear(now))]_vars

\* C9: a charge.success puts the subscriber on monthly only for the monthly
\* plan code and on yearly only for the yearly plan code; with any other plan
\* code, or none, the subscriber's plan stays what it was.
PlanFollowsMapping ==
    [][(WebhookSave(TRUE) /\ wh.ev.event = ChargeSuccess /\ wh.doc = users[wh.uid])
        => users'[wh.uid].plan =
              (IF wh.ev.plan = Some(MonthlyPlanCode) THEN "monthly"
               ELSE IF wh.ev.plan = Some(YearlyPlanCode) THEN "yearly"
               ELSE users[wh.uid].plan)]_vars

----------------------------------------------------------------------------
(* Properties: what a subscription.disable / subscription.not_renew leaves *)

\* C10: a subscription.disable or subscription.not_renew is resolved to a
\* subscriber whose stored paystackSubscriptionId is the event's code, to one
\* whenever there is one; its save leaves that subscriber on plan free with no
\* renewalDate and no paystackSubscriptionId, and every other subscriber's
\* record as it was.
DisableDowngradesResolved ==
    [][/\ (WebhookFind(TRUE) /\ wh.ev.event \in DisableTypes)
            => /\ wh'.pc = "save" => users[wh'.uid].paystackSubscriptionId = wh.ev.sub
               /\ (\E u \in Users : users[u].paystackSubscriptionId = wh.ev.sub)
                    => wh'.pc = "save"
       /\ (WebhookSave(TRUE) /\ wh.ev.event \in DisableTypes)
            => users' = [users EXCEPT ![wh.uid] = FreeDoc]]_vars

----------------------------------------------------------------------------
(* Properties: payment failures, unresolved subscribers, unknown events *)

\* C11: the save of an invoice.payment_failed for the subscription code of a
\* subscriber fetched as {plan: monthly, renewalDate in the future,
\* paystackSubscriptionId: that code} leaves that subscriber, at once, on plan
\* free with no renewalDate and no paystackSubscriptionId, and every other
\* record as it was.
PaymentFailedDowngradesAtOnce ==
    [][(/\ WebhookSave(TRUE)
        /\ wh.ev.event = PaymentFailed
        /\ wh.doc.plan = "monthly"
        /\ IsSome(wh.doc.renewalDate) /\ Val(wh.doc.renewalDate) > now
        /\ wh.doc.paystackSubscriptionId = wh.ev.sub)
            => users' = [users EXCEPT ![wh.uid] = FreeDoc]]_vars

\* the monthly charge and then the failed payment of SUB1 have been applied,
\* and the subscriber is free before any renewal date could pass
PaymentFailedDowngradesAtOnceSeen ==
    /\ Event(ChargeSuccess, TRUE, Some("U1@X.IO"), Some("SUB1"), Some(MonthlyPlanCode)) \in applied
    /\ Event(PaymentFailed, TRUE, None, Some("SUB1"), None) \in applied
    /\ users["u1"] = FreeDoc
    /\ now = StartTime

\* no user has the email of a charge.success, or the subscription code of a
\* downgrading event, that the handler looks up
Unresolved(ev) ==
    IF ev.event = ChargeSuccess
    THEN \A u \in Users : EmailOf(u) # toLowerCase(Val(ev.email))
    ELSE \A u \in Users : users[u].paystackSubscriptionId # ev.sub

\* C12: when the lookup of a verified delivery comes back and no subscriber has
\* the event's customer email (charge.success) or stores its subscription code
\* (subscription.disable, subscription.not_renew, invoice.payment_failed), the
\* handler ends there: the answer given was 200 and no record changes.
UnresolvedSubscriberAbsorbed ==
    [][(WebhookFind(TRUE) /\ Unresolved(wh.ev))
            => (wh'.pc = "idle" /\ wh'.resp = 200 /\ users' = users)]_vars

\* a verified delivery answered 200 was dropped for want of a user, with a paid
\* subscriber on record
UnresolvedSubscriberAbsorbedSeen ==
    /\ wh.pc = "idle"
    /\ wh.log = "user not found"
    /\ wh.resp = 200
    /\ wh.sig = "provider"
    /\ \E u \in Users : users[u].plan # "free"

\* the requests signed by the provider whose event type the switch has no case
\* for
UnknownTypeRequests ==
    {req \in Requests : /\ Verifies(Some(ProviderKey), req)
                        /\ req.body.seen = "buffer"
                        /\ req.body.json
                        /\ req.body.ev.event \notin HandledTypes}

\* C13: a verified delivery of an event type the handler does not recognize is
\* answered 200 and ends there, with no query issued and no record changed.
UnknownEventIgnored ==
    [][\A req \in UnknownTypeRequests :
            WebhookReceive(Some(ProviderKey), req)
                => (wh'.resp = 200 /\ wh'.pc = "idle" /\ users' = users)]_vars

\* an unhandled event has been answered 200 and dropped, with a paid subscriber
\* on record
UnknownEventIgnoredSeen ==
    /\ wh.pc = "idle"
    /\ wh.log = "unhandled event"
    /\ wh.resp = 200
    /\ \E u \in Users : users[u].plan # "free"

----------------------------------------------------------------------------
(* Properties: the cron job *)

\* C14: a run of the cron job at time now downgrades to free, with renewalDate
\* and paystackSubscriptionId cleared, exactly the subscribers on a paid plan
\* whose renewalDate is more than 2 days before now; a renewalDate of now - 1
\* day, one inside the window or in the future, and a free subscriber, are left
\* as they are.
SweepDowngradesExactlyLapsed ==
    [][Sweep(TRUE)
        => \A u \in Users :
              users'[u] = IF /\ users[u].plan # "free"
                             /\ IsSome(users[u].renewalDate)
                             /\ Val(users[u].renewalDate) < now - 2
                          THEN FreeDoc
                          ELSE users[u]]_vars

\* a run has downgraded one subscriber and spared another whose renewalDate had
\* passed, and that one still has the renewalDate of the day before
SweepDowngradesExactlyLapsedSeen ==
    /\ swept.modified = 1
    /\ swept.spared = 1
    /\ \E u \in Users : users[u].plan # "free" /\ users[u].renewalDate = Some(now - 1)
    /\ \E u \in Users : users[u] = FreeDoc

\* C15: a run of the cron job leaves alone every subscriber its filter does
\* not match at that moment, one whose renewalDate a charge.success has just
\* extended included; and when a run has come between the read and the save of
\* a charge.success handler, downgrading the subscriber the handler read, the
\* save leaves that subscriber on the renewed paid plan with the new
\* renewalDate and the event's subscription code.
SweepAndChargeLeaveRenewed ==
    [][/\ Sweep(TRUE)
            => \A u \in Users : ~SweepSelects(users[u], now) => users'[u] = users[u]
       /\ (/\ WebhookSave(TRUE)
           /\ wh.ev.event = ChargeSuccess
           /\ IsSome(wh.ev.plan)
           /\ SweepSelects(wh.doc, now)
           /\ users[wh.uid] = Downgraded(wh.doc))
            => users'[wh.uid] = Assigned(wh.ev, wh.doc, now)]_vars

\* C16: the local update of a cancellation removes the subscription code of
\* the target and nothing else, of the target or of anyone; when the target is
\* then on a paid plan with renewalDate in the future, the status derived from
\* the updated record is canceled.
CancelRemovesOnlySubscriptionId ==
    [][CancelUpdate(TRUE)
        => /\ users' = [users EXCEPT ![cn.target].paystackSubscriptionId = None]
           /\ users'[cn.target].plan = users[cn.target].plan
           /\ users'[cn.target].renewalDate = users[cn.target].renewalDate
           /\ (/\ users[cn.target].plan # "free"
               /\ IsSome(users[cn.target].renewalDate)
               /\ Val(users[cn.target].renewalDate) > now)
                => getSubscriptionStatus(users'[cn.target], now) = "canceled"]_vars

\* a cancellation the provider accepted has been answered 200, and a subscriber
\* is on a paid plan, a renewalDate ahead, without subscription code
CancelRemovesOnlySubscriptionIdSeen ==
    /\ cn.pc = "idle"
    /\ cn.resp = 200
    /\ cn.log = "cancelled on Paystack"
    /\ \E u \in Users :
        /\ users[u].plan \in {"monthly", "yearly"}
        /\ IsSome(users[u].renewalDate)
        /\ Val(users[u].renewalDate) > now
        /\ ~IsSome(users[u].paystackSubscriptionId)
        /\ getSubscriptionStatus(users[u], now) = "canceled"

\* C17: while an accepted cancellation of a subscriber is between its provider
\* call and its local update, the save of a subscription.disable or
\* subscription.not_renew delivery for the same subscription code leaves that
\* subscriber, on a paid plan with renewalDate not yet passed, on the same plan
\* with the same renewalDate.
CancelledKeepsPaidPeriod ==
    [][(/\ WebhookSave(TRUE)
        /\ wh.ev.event \in DisableTypes
        /\ cn.pc = "update"
        /\ cn.unsub = "success"
        /\ cn.target = wh.uid
        /\ cn.sub = wh.ev.sub
        /\ users[wh.uid].plan # "free"
        /\ ~IsExpired(users[wh.uid], now))
        => /\ users'[wh.uid].plan = users[wh.uid].plan
           /\ users'[wh.uid].renewalDate = users[wh.uid].renewalDate]_vars

\* C18: when the provider call of a cancellation has reported a failure, the
\* step that ends the request answers with a failure status and leaves the
\* target's plan, renewalDate and subscription code as they are.
ProviderFailureFailsCancellation ==
    [][(/\ cn.pc = "update"
        /\ cn.unsub = "failure"
        /\ \E ok \in BOOLEAN : CancelUpdate(ok))
        => /\ cn'.resp >= 400
           /\ users'[cn.target] = users[cn.target]]_vars

\* C19: a disable call the provider answers with not-found returns success,
\* and the cancellation that made it goes on to answer 200 with the target's
\* stored subscription code removed.
NotFoundCountsAsCancelled ==
    [][/\ CancelUnsubscribe("notfound") => cn'.unsub = "success"
       /\ (/\ cn.pc = "update"
           /\ cn.provider = "notfound"
           /\ CancelUpdate(TRUE))
            => /\ cn'.resp = 200
               /\ IsSome(cn.sub)
               /\ ~IsSome(users'[cn.target].paystackSubscriptionId)]_vars

\* a cancellation whose disable call found nothing at the provider has been
\* answered 200, and a paid subscriber is without subscription code
NotFoundCountsAsCancelledSeen ==
    /\ cn.pc = "idle"
    /\ cn.resp = 200
    /\ cn.log = "not found on Paystack"
    /\ \E u \in Users :
        /\ users[u].plan \in {"monthly", "yearly"}
        /\ ~IsSome(users[u].paystackSubscriptionId)

\* C20: a cancellation request of a caller who is neither the target nor an
\* admin or moderator is answered 403 at once, with no provider call and no
\* record changed; a cancellation past its checks always belongs to the target
\* or to an admin or moderator; and a reactivation request of a caller who is
\* no admin or moderator changes no record.
OnlyOwnerOrStaffCancels ==
    [][/\ \A c \in Callers, t \in Users :
            (/\ CancelStart(c, t)
             /\ c # t
             /\ RoleOf(c) \notin {"admin", "moderator"})
                => /\ cn'.pc = "idle"
                   /\ cn'.resp = 403
                   /\ users' = users
       /\ cn'.pc # "idle"
            => \/ cn'.caller = cn'.target
               \/ RoleOf(cn'.caller) \in {"admin", "moderator"}
       /\ \A c \in Callers, t \in Requesters, b \in ReactivateBodies :
            (/\ reactivateSubscription(c, t, b)
             /\ RoleOf(c) \notin {"admin", "moderator"})
                => users' = users]_vars

\* a cancellation request has been answered 403 while a subscriber is on a
\* paid plan with a subscription code
OnlyOwnerOrStaffCancelsSeen ==
    /\ cn.pc = "idle"
    /\ cn.resp = 403
    /\ \E u \in Users :
        /\ users[u].plan \in {"monthly", "yearly"}
        /\ IsSome(users[u].paystackSubscriptionId)

\* C21: a reactivation request of an admin or moderator whose plan is missing
\* or is neither monthly nor yearly, or whose renewal date is missing, is
\* answered with a 4xx status and changes no record; one that is answered 200
\* sets the target's plan and renewalDate to the values of the body, sets the
\* subscription code to the body's when the body has one, and changes no other
\* record.
ReactivationValidated ==
    [][\A c \in Callers, t \in Requesters, b \in ReactivateBodies :
        (/\ reactivateSubscription(c, t, b)
         /\ RoleOf(c) \in {"admin", "moderator"})
            => IF ~IsSome(b[1]) \/ Val(b[1]) \notin {"monthly", "yearly"} \/ ~IsSome(b[2])
               THEN /\ ReactivateCode(c, b[1], b[2]) \in 400..499
                    /\ users' = users
               ELSE ReactivateCode(c, b[1], b[2]) = 200
                        => /\ users'[t].plan = Val(b[1])
                           /\ users'[t].renewalDate = b[2]
                           /\ IsSome(b[3]) => users'[t].paystackSubscriptionId = b[3]
                           /\ \A u \in Users \ {t} : users'[u] = users[u]]_vars

\* u1 is on the monthly plan to 2024-02-28 of a reactivation that gave no
\* subscription code, and still holds the code an earlier reactivation gave
ReactivationValidatedSeen ==
    users["u1"] = [plan |-> "monthly", renewalDate |-> Some(58),
                   paystackSubscriptionId |-> Some("SUB2")]

----------------------------------------------------------------------------
(* Properties: the status deriver and the listings *)

\* the status the first-match rule gives, each case stated with the cases
\* before it excluded
StatusRule(doc, t) ==
    IF doc.plan = "free" THEN "free"
    ELSE IF IsSome(doc.renewalDate) /\ Val(doc.renewalDate) <= t THEN "expired"
    ELSE IF IsSome(doc.renewalDate) /\ IsSome(doc.paystackSubscriptionId) THEN "active"
    ELSE "canceled"

\* C22: for every plan, every renewalDate (absent, before now, now, after now)
\* and every subscription code (absent, present) the deriver returns one of
\* free, active, canceled, expired, the one of the first-match rule; and a
\* listing by status holds exactly the subscribers the rule gives that status,
\* each with that status.
StatusIsFirstMatch ==
    /\ \A d \in StatusDocs, t \in TimePoints :
        /\ getSubscriptionStatus(d, t) \in Statuses
        /\ getSubscriptionStatus(d, t) = StatusRule(d, t)
        /\ d.plan = "free" => getSubscriptionStatus(d, t) = "free"
        /\ (d.plan # "free" /\ IsSome(d.renewalDate) /\ Val(d.renewalDate) > t)
            => getSubscriptionStatus(d, t) =
                IF IsSome(d.paystackSubscriptionId) THEN "active" ELSE "canceled"
    /\ (listing.kind = "status" /\ listing.code = 200)
        => listing.rows = {<<u, listing.want>> :
                            u \in {v \in Users : StatusRule(users[v], now) = listing.want}}

\* the listing of the canceled holds a subscriber without renewalDate and one
\* with a renewalDate ahead and no subscription code, and leaves out a free one
StatusIsFirstMatchSeen ==
    /\ listing.kind = "status"
    /\ listing.want = "canceled"
    /\ listing.rows = {<<"u1", "canceled">>, <<"u2", "canceled">>}
    /\ users["u1"].plan # "free"
    /\ ~IsSome(users["u1"].renewalDate)
    /\ IsSome(users["u1"].paystackSubscriptionId)
    /\ users["u2"].plan # "free"
    /\ IsSome(users["u2"].renewalDate)
    /\ Val(users["u2"].renewalDate) > now
    /\ ~IsSome(users["u2"].paystackSubscriptionId)

\* C23: a subscriber on a paid plan whose renewalDate is now or earlier has
\* the status expired, with a subscription code or without one, and is listed
\* as expired and under no other status.
ExpiredTakesPriority ==
    \A u \in Users :
        (/\ users[u].plan # "free"
         /\ IsSome(users[u].renewalDate)
         /\ Val(users[u].renewalDate) <= now)
            => /\ getSubscriptionStatus(users[u], now) = "expired"
               /\ (listing.kind = "status" /\ listing.code = 200)
                    => /\ \A r \in listing.rows : r[1] = u => r[2] = "expired"
                       /\ listing.want = "expired" <=> <<u, "expired">> \in listing.rows
               /\ listing.kind = "active" => \A r \in listing.rows : r[1] # u

\* the listing of the expired holds a subscriber whose renewalDate is now and
\* who has a subscription code, and one before now who has none
ExpiredTakesPrioritySeen ==
    /\ listing.kind = "status"
    /\ listing.want = "expired"
    /\ listing.rows = {<<"u1", "expired">>, <<"u2", "expired">>}
    /\ users["u1"].renewalDate = Some(now)
    /\ IsSome(users["u1"].paystackSubscriptionId)
    /\ IsSome(users["u2"].renewalDate)
    /\ Val(users["u2"].renewalDate) < now
    /\ ~IsSome(users["u2"].paystackSubscriptionId)

----------------------------------------------------------------------------
(* Properties: what the signature covers *)

\* C24: with the shared secret configured, a delivery whose signature header
\* is the HMAC of the bytes of its body under the secret is not answered 401,
\* and a delivery whose header is anything else, the HMAC of other bytes
\* included, is not answered 200.
SignatureCoversRawBody ==
    [][\A req \in Requests :
            WebhookReceive(Some(ProviderKey), req)
                => /\ Verifies(Some(ProviderKey), req) => wh'.resp # 401
                   /\ ~Verifies(Some(ProviderKey), req) => wh'.resp # 200]_vars

----------------------------------------------------------------------------
(* Properties: the plan controller *)

----------------------------------------------------------------------------
(* Properties: failed runs of the cron job *)

\* C26: a run of the cron job whose update the store fails changes no
\* subscriber record and leaves every handler as it was, so whoever the filter
\* matched it still matches; and a successful run, the next after a failed one
\* included, downgrades to free, with both fields cleared, everyone the filter
\* matches.
FailedSweepLeavesEligible ==
    [][/\ Sweep(FALSE)
            => /\ users' = users
               /\ wh' = wh /\ cn' = cn
               /\ \A u \in Users :
                    SweepSelects(users[u], now) => SweepSelects(users'[u], now')
       /\ Sweep(TRUE)
            => \A u \in Users : SweepSelects(users[u], now) => users'[u] = FreeDoc]_vars

\* a run has failed with a subscriber to downgrade, and the next run has
\* downgraded a subscriber
FailedSweepLeavesEligibleSeen ==
    /\ swept.retry = "done"
    /\ swept.modified >= 1
    /\ \E u \in Users : users[u] = FreeDoc

----------------------------------------------------------------------------
(* Properties: subscriptions at the provider *)

\* C27: a call of createPaystackSubscription made while the customer has a
\* subscription on the plan in status active or non-renewing, and during which
\* no listing, no disable and no request fails for another reason, returns
\* success with the code of a subscription the provider holds as active.
DuplicateSubscriptionResolved ==
    [][(/\ cs.pc \in {"create", "fallback"}
        /\ cs'.pc = "idle"
        /\ cs.had
        /\ ~cs'.faults)
        => /\ cs'.result = "success"
           /\ cs'.error # "duplicate_subscription"
           /\ IsSome(cs'.code)
           /\ paystack'.subs[Val(cs'.code)] = "active"]_vars

----------------------------------------------------------------------------
(* Properties: listings *)

\* C30: every subscriber in the answer of the active-subscribers listing
\* carries a status derived when the answer is made, and that status is active.
ListedActiveAreActive ==
    [][(listing' # listing /\ listing'.kind = "active") =>
        \A r \in listing'.rows :
            /\ r[2] = getSubscriptionStatus(users'[r[1]], now')
            /\ r[2] = "active"]_vars

----------------------------------------------------------------------------
(* Properties: what a subscriber's own requests can do *)

\* a renewalDate that was stored and is now a later one
MovedLater(before, after) == IsSome(before) /\ IsSome(after) /\ Val(after) > Val(before)

\* a step of a request a subscriber makes for themself
SubscriberRequest(u) ==
    \/ \E p \in OnboardingPlans : completeOnboarding(u, p)
    \/ \E v \in UpdatePlanValues : updatePlan(u, v)
    \/ CancelStart(u, u)
    \/ \E o \in ProviderOutcomes : CancelUnsubscribe(o)
    \/ \E ok \in BOOLEAN : CancelUpdate(ok)

\* C29: a step of completeOnboarding, updatePlan or cancelSubscription made by
\* a subscriber neither turns their derived status into active nor moves their
\* renewalDate to a later day, whatever state it starts from.
SubscriberCannotActivate ==
    [][\A u \in Requesters :
        SubscriberRequest(u) =>
            /\ getSubscriptionStatus(users'[u], now') = "active"
                   => getSubscriptionStatus(users[u], now) = "active"
            /\ ~MovedLater(users[u].renewalDate, users'[u].renewalDate)]_vars

----------------------------------------------------------------------------
(* Properties: the cron job as the retry of missed downgrades *)

\* no delivery is in flight and no further request or delivery will come
Quiet == ops = MaxOps /\ wh.pc = "idle"

\* C28: with the cron job running day after day, a subscriber on a paid plan
\* whose renewalDate has passed, and whose grace ends within the calendar, is
\* in the end free with renewalDate and paystackSubscriptionId cleared, once
\* no further delivery or reactivation reaches them.
LapsedEventuallyFree ==
    \A u \in Users :
        (/\ Quiet
         /\ Lapsed(users[u], now)
         /\ Val(users[u].renewalDate) + GraceDays < LastDay)
        ~> (users[u] = FreeDoc)

\* a run of the job has downgraded a subscriber after the last request
LapsedEventuallyFreeSeen ==
    /\ Quiet
    /\ now = LastDay
    /\ swept.modified >= 1
    /\ users["u1"] = FreeDoc

====
